---- MODULE Spec2Model ----
(***************************************************************************)
(* EV-charger-locator: the two Streamlit programs app.py (spreadsheet      *)
(* source, categorical filters) and ev_charger_locator.py (KEPCO API       *)
(* source), modelled as one state machine.  The variable prog says which   *)
(* of the two scripts is running.                                          *)
(*                                                                         *)
(* Units.  Coordinates are integers in millidegrees (37566 is 37.566       *)
(* degrees), angles are integers in microradians, distances are integers   *)
(* in metres and the radius slider is an integer in its own step of        *)
(* 0.1 km.  The floating-point haversine of the source is evaluated in     *)
(* this fixed-point arithmetic, with TLC's 32-bit integers.                *)
(*                                                                         *)
(* Field names.  The Korean column names of the source are written         *)
(*   name = 충전소명, addr = 주소, lat = 위도, lon = 경도,                 *)
(*   latlon = 위도경도, connector = 충전기타입, operator = 운영기관,       *)
(*   access = 이용가능여부, place = 장소유형, speed = 충전속도,            *)
(*   status = 충전기상태, dist = 거리_km, ALL = "전체".                    *)
(* idx is the pandas index label of a row.                                 *)
(*                                                                         *)
(* Every action is one run of the script, from the widget that triggered   *)
(* it to the map at the end.  A session is taken to be shorter than the    *)
(* ttl of the data cache, so the repository is reloaded only by the clear  *)
(* button.  The radio button that chooses between the address and the      *)
(* coordinate inputs is not part of the state: both set the same centre.   *)
(***************************************************************************)
EXTENDS Integers, Sequences, FiniteSets, TLC

\* ------------------------------------------------------------------------
\* Bounds of the model
\* ------------------------------------------------------------------------
MaxRows == 2

\* ------------------------------------------------------------------------
\* Program constants
\* ------------------------------------------------------------------------
DEFAULT_LAT == 37566
DEFAULT_LNG == 126978
R == 6371
SLIDER_MIN == 1
SLIDER_MAX == 100
SLIDER_DEFAULT == 10

\* pandas' missing value in a numeric column: an integer no coordinate text
\* of the model denotes (texts carry no sign)
NaN == -999999
\* pandas' missing value in a text column
NA == "NaN"
\* a missing text cell / a missing XML tag (None); every text is a sequence
\* of one-character strings, so no text equals it
NoText == <<"NaN">>
ALL == "ALL"
UNKNOWN == "unknown"

Digits == {"0", "1", "2", "3", "4", "5", "6", "7", "8", "9"}

DigitVal(c) ==
  CASE c = "0" -> 0 [] c = "1" -> 1 [] c = "2" -> 2 [] c = "3" -> 3
    [] c = "4" -> 4 [] c = "5" -> 5 [] c = "6" -> 6 [] c = "7" -> 7
    [] c = "8" -> 8 [] c = "9" -> 9

\* ------------------------------------------------------------------------
\* Text conversions
\* ------------------------------------------------------------------------
\* float(text) succeeds
IsFloatText(s) == Len(s) > 0 /\ \A i \in 1..Len(s) : s[i] \in Digits

RECURSIVE FloatValue(_)
\* float(text), for a text float() accepts
FloatValue(s) ==
  IF s = <<>> THEN 0
  ELSE 10 * FloatValue(SubSeq(s, 1, Len(s) - 1)) + DigitVal(s[Len(s)])

RECURSIVE Split(_, _)
\* text.split(sep): the parts of the text between the separators
Split(s, sep) ==
  IF \A i \in 1..Len(s) : s[i] # sep THEN <<s>>
  ELSE LET k == CHOOSE i \in 1..Len(s) :
                   s[i] = sep /\ \A j \in 1..(i - 1) : s[j] # sep
       IN <<SubSeq(s, 1, k - 1)>> \o Split(SubSeq(s, k + 1, Len(s)), sep)

\* ------------------------------------------------------------------------
\* Distance (haversine_np)
\* ------------------------------------------------------------------------
Abs(x) == IF x < 0 THEN -x ELSE x

\* np.radians: millidegrees to microradians (pi/180 = 0.01745)
Radians(x) == (x * 1745) \div 100

SinPos(x) == x - ((((x * x) \div 1000000) * x) \div 6000000)
\* np.sin of an angle in microradians, in millionths
Sin(x) == IF x < 0 THEN -SinPos(-x) ELSE SinPos(x)

\* np.cos of an angle in microradians, in millionths
Cos(x) ==
  LET xm  == Abs(x) \div 1000
      x2  == xm * xm
      x2k == x2 \div 1000
      t4  == (x2k * x2k) \div 24
      t6  == ((((x2k * x2k) \div 1000) * x2k) \div 720)
  IN 1000000 - (x2 \div 2) + t4 - t6

RECURSIVE SqrtSearch(_, _, _)
SqrtSearch(n, lo, hi) ==
  IF lo >= hi THEN lo
  ELSE LET mid == (lo + hi + 1) \div 2
       IN IF mid * mid <= n THEN SqrtSearch(n, mid, hi)
          ELSE SqrtSearch(n, lo, mid - 1)
\* np.sqrt, rounded down
Sqrt(n) == SqrtSearch(n, 0, 46340)

\* np.arcsin of a value in millionths, in microradians
ArcSin(s) == s + ((((s * s) \div 1000000) * s) \div 6000000)

\* The same functions at the coarser resolution used for large angles:
\* angles in milliradians, values in thousandths.
SinMPos(x) ==
  LET x2 == (x * x) \div 1000
  IN x - ((x2 * x) \div 6000) + ((((x2 * x2) \div 1000) * x) \div 120000)
SinM(x) == IF x < 0 THEN -SinMPos(-x) ELSE SinMPos(x)
ArcSinM(s) ==
  LET s2 == (s * s) \div 1000
  IN s + ((s2 * s) \div 6000) + ((((s2 * s2) \div 1000) * s * 3) \div 40000)

\* haversine_np(lon1, lat1, lon2, lat2) in metres; NaN if an argument is NaN
haversine_np(lon1, lat1, lon2, lat2) ==
  IF NaN \in {lon1, lat1, lon2, lat2} THEN NaN
  ELSE
  LET rlon1 == Radians(lon1)
      rlat1 == Radians(lat1)
      rlon2 == Radians(lon2)
      rlat2 == Radians(lat2)
      dlon  == rlon2 - rlon1
      dlat  == rlat2 - rlat1
      cc    == ((Cos(rlat1) \div 1000) * (Cos(rlat2) \div 1000)) \div 1000
  \* differences up to 2800 microradians stay within 32 bits at the fine
  \* resolution; larger ones are computed at the coarse one
  IN IF Abs(dlon) <= 2800 /\ Abs(dlat) <= 2800
     THEN LET sLat == Sin(dlat \div 2)
              sLon == Sin(dlon \div 2)
              a    == (sLat * sLat) + ((cc * (sLon * sLon)) \div 1000)
          IN (2 * R * ArcSin(Sqrt(a))) \div 1000
     ELSE LET sLat == SinM(dlat \div 2000)
              sLon == SinM(dlon \div 2000)
              a    == (sLat * sLat) + ((cc * (sLon * sLon)) \div 1000)
          IN 2 * R * ArcSinM(Sqrt(a))

\* ------------------------------------------------------------------------
\* Data load of app.py (load_data)
\* ------------------------------------------------------------------------
\* A sheet is [hasLatLon |-> BOOLEAN, rows |-> sequence of source rows];
\* hasLatLon says whether the sheet has the combined latlon column.

\* df["latlon"].str.split(",", expand=True): the parts of every row
SplitParts(rows) ==
  [i \in 1..Len(rows) |->
     IF rows[i].latlon = NoText THEN NoText ELSE Split(rows[i].latlon, ",")]

\* the number of columns expand=True produces
ExpandWidth(rows) ==
  LET lens == {Len(SplitParts(rows)[i]) :
                 i \in {j \in 1..Len(rows) : rows[j].latlon # NoText}}
  IN IF lens = {} THEN 0 ELSE CHOOSE n \in lens : \A m \in lens : m <= n

\* .astype(float) raises on a part that is not a number
AstypeFails(rows) ==
  \E i \in 1..Len(rows) :
     /\ rows[i].latlon # NoText
     /\ \E k \in 1..Len(SplitParts(rows)[i]) :
           ~IsFloatText(SplitParts(rows)[i][k])

\* load_data raises: the two-column assignment of line 19 or its astype
LoadFails(xlsx) ==
  /\ xlsx.hasLatLon
  /\ \/ ExpandWidth(xlsx.rows) # 2
     \/ AstypeFails(xlsx.rows)

\* the cell of column k (1 = lat, 2 = lon) after line 19
SplitCell(parts, k) ==
  IF parts = NoText \/ Len(parts) < k THEN NaN ELSE FloatValue(parts[k])

\* the frame before dropna: columns selected and renamed, index kept
RenamedRow(xlsx, i) ==
  LET r == xlsx.rows[i]
      parts == SplitParts(xlsx.rows)[i]
  IN [idx |-> i - 1, name |-> r.name, addr |-> r.addr,
      lat |-> IF xlsx.hasLatLon THEN SplitCell(parts, 1) ELSE r.lat,
      lon |-> IF xlsx.hasLatLon THEN SplitCell(parts, 2) ELSE r.lon,
      connector |-> r.connector, operator |-> r.operator,
      access |-> r.access, place |-> r.place, speed |-> r.speed]

\* .dropna(subset=["lat", "lon"]): a row stays when neither is missing
DropnaKeeps(r) == r.lat # NaN /\ r.lon # NaN

\* load_data(xlsx_path), for a sheet on which it does not raise
load_data(xlsx) ==
  SelectSeq([i \in 1..Len(xlsx.rows) |-> RenamedRow(xlsx, i)], DropnaKeeps)

\* ------------------------------------------------------------------------
\* Data load of ev_charger_locator.py (fetch_ev_data_from_api)
\* ------------------------------------------------------------------------
\* A response is [kind |-> "ok" | "http_error" | "result_error" | "no_items",
\* items |-> sequence of items]; an item carries the text of its tags,
\* NoText / NA for an absent tag.

\* float(item.findtext(tag) or 0) raises ValueError
CoordFails(text) == text # NoText /\ text # <<>> /\ ~IsFloatText(text)

\* float(item.findtext(tag) or 0)
CoordValue(text) ==
  IF text = NoText \/ text = <<>> THEN 0 ELSE FloatValue(text)

\* the try block of lines 74-86 raises for this item
ItemFails(item) == CoordFails(item.lat) \/ CoordFails(item.longi)

\* item.findtext(tag, default)
FindText(v, default) == IF v = NA THEN default ELSE v

\* the dict appended to data for an item
ParseItem(item) ==
  [name |-> FindText(item.csNm, ""), addr |-> FindText(item.addr, ""),
   lat |-> CoordValue(item.lat), lon |-> CoordValue(item.longi),
   access |-> FindText(item.useTime, UNKNOWN),
   operator |-> FindText(item.busiNm, UNKNOWN),
   connector |-> FindText(item.cpTp, UNKNOWN),
   status |-> FindText(item.cpStat, UNKNOWN)]

RECURSIVE ParsedPositions(_, _)
\* the positions in items of the items that reach data, in order
ParsedPositions(items, i) ==
  IF i > Len(items) THEN <<>>
  ELSE (IF ItemFails(items[i]) THEN <<>> ELSE <<i>>)
         \o ParsedPositions(items, i + 1)

\* pd.DataFrame(data): row k-1 is the k-th parsed item
DataFrameOf(items) ==
  LET pos == ParsedPositions(items, 1)
  IN [k \in 1..Len(pos) |->
        [idx |-> k - 1] @@ ParseItem(items[pos[k]])]

\* df[(df['lat'] != 0) | (df['lon'] != 0)]
ZeroFilter(r) == r.lat # 0 \/ r.lon # 0

\* fetch_ev_data_from_api(service_key); every error path returns the empty
\* frame, the KeyError of line 94 on an empty data list included
fetch_ev_data_from_api(response) ==
  IF response.kind # "ok" THEN <<>>
  ELSE SelectSeq(DataFrameOf(response.items), ZeroFilter)

\* ------------------------------------------------------------------------
\* Inputs of the model
\* ------------------------------------------------------------------------
\* reference points the geocoder, the coordinate inputs and a map click
\* can yield: Seoul city hall (the default) and a point 2 km north of it
HomePoint == <<DEFAULT_LAT, DEFAULT_LNG>>
NorthPoint == <<37584, 126978>>
Points == {HomePoint, NorthPoint}

\* positions of the radius slider used by the model (0.1, 0.7 and 2.0 km)
Radii == {r \in {1, 7, 20} : SLIDER_MIN <= r /\ r <= SLIDER_MAX}

TextLat == <<"3", "7", "5", "6", "6">>
TextLon == <<"1", "2", "6", "9", "7", "8">>
TextLonEast == <<"1", "2", "6", "9", "8", "6">>
TextBad == <<"x">>

\* rows of the spreadsheet: two chargers of one station at the default
\* point, a station 700 m east of it, a row whose coordinate text is not a
\* number, and a row without coordinates
SheetRowPool ==
  { [name |-> "S1", addr |-> "A1", latlon |-> TextLat \o <<",">> \o TextLon,
     lat |-> 37566, lon |-> 126978, connector |-> "DC",
     operator |-> "KEPCO", access |-> "open", place |-> "mart",
     speed |-> "fast"],
    [name |-> "S1", addr |-> "A1", latlon |-> TextLat \o <<",">> \o TextLon,
     lat |-> 37566, lon |-> 126978, connector |-> "DC",
     operator |-> "KEPCO", access |-> "open", place |-> "mart",
     speed |-> NA],
    [name |-> "S2", addr |-> "A2",
     latlon |-> TextLat \o <<",">> \o TextLonEast,
     lat |-> 37566, lon |-> 126986, connector |-> "DC",
     operator |-> "ME", access |-> "open", place |-> "mart",
     speed |-> "fast"],
    [name |-> "S3", addr |-> "A3", latlon |-> TextBad \o <<",">> \o TextLon,
     lat |-> NaN, lon |-> 126978, connector |-> "DC",
     operator |-> "ME", access |-> "open", place |-> "mart",
     speed |-> "fast"],
    [name |-> "S4", addr |-> "A4", latlon |-> NoText,
     lat |-> NaN, lon |-> NaN, connector |-> "DC",
     operator |-> "KEPCO", access |-> "open", place |-> "mart",
     speed |-> "fast"] }

\* items of the API response: the same stations, an item whose lat text is
\* not a number, an item without a lat tag, an item without coordinates
ItemPool ==
  { [csNm |-> "S1", addr |-> "A1", lat |-> TextLat, longi |-> TextLon,
     useTime |-> "24h", busiNm |-> "KEPCO", cpTp |-> "1", cpStat |-> "1"],
    [csNm |-> "S1", addr |-> "A1", lat |-> TextLat, longi |-> TextLon,
     useTime |-> "24h", busiNm |-> "KEPCO", cpTp |-> "2", cpStat |-> NA],
    [csNm |-> "S2", addr |-> "A2", lat |-> TextLat, longi |-> TextLonEast,
     useTime |-> "24h", busiNm |-> "KEPCO", cpTp |-> "1", cpStat |-> "1"],
    [csNm |-> "S3", addr |-> "A3", lat |-> TextBad, longi |-> TextLon,
     useTime |-> "24h", busiNm |-> "KEPCO", cpTp |-> "1", cpStat |-> "1"],
    [csNm |-> "S4", addr |-> "A4", lat |-> NoText, longi |-> TextLon,
     useTime |-> "24h", busiNm |-> "KEPCO", cpTp |-> "1", cpStat |-> "1"],
    [csNm |-> "S5", addr |-> "A5", lat |-> NoText, longi |-> <<>>,
     useTime |-> "24h", busiNm |-> "KEPCO", cpTp |-> "1", cpStat |-> "1"] }

\* the sequences over a pool of at most n elements
SeqsUpTo(pool, n) == UNION {[1..k -> pool] : k \in 0..n}

Sheets ==
  {[hasLatLon |-> h, rows |-> rows] :
     h \in BOOLEAN, rows \in SeqsUpTo(SheetRowPool, MaxRows)}

Responses ==
  {[kind |-> "ok", items |-> items] : items \in SeqsUpTo(ItemPool, MaxRows)}
    \cup {[kind |-> k, items |-> <<>>] : k \in {"http_error", "result_error"}}

NoSheet == [hasLatLon |-> FALSE, rows |-> <<>>]
NoResponse == [kind |-> "none", items |-> <<>>]

\* ------------------------------------------------------------------------
\* Filter sidebar of app.py
\* ------------------------------------------------------------------------
CatFields == {"connector", "operator", "place", "access", "speed"}

\* df_raw[f].dropna().unique()
DistinctValues(frame, f) == {frame[i][f] : i \in 1..Len(frame)} \ {NA}

\* the options a multiselect offers
Options(frame, f) == {ALL} \cup DistinctValues(frame, f)

\* variant: ALL expands to the first distinct value only
ExpandFirstOnly(widget, frame, f) ==
  IF ALL \in widget
  THEN {v \in DistinctValues(frame, f) :
          \E i \in 1..Len(frame) :
             frame[i][f] = v /\ \A j \in 1..(i - 1) : frame[j][f] = NA}
  ELSE widget
\* if ALL in selected: selected = df_raw[f].dropna().unique()
Expand(widget, frame, f) ==
  IF ALL \in widget THEN DistinctValues(frame, f) ELSE widget

\* the multiselects the user of the model changes; the others keep their
\* default [ALL]
EditedFields == {"operator", "speed"}

\* the values the user gives a multiselect: the default [ALL], or any
\* selection of the offered values (none of them included)
WidgetChoices(frame, f) ==
  IF f \in EditedFields
  THEN {{ALL}} \cup SUBSET DistinctValues(frame, f)
  ELSE {{ALL}}

RECURSIVE WidgetsFrom(_, _)
\* the values the multiselects of the given fields can hold
WidgetsFrom(fields, frame) ==
  IF fields = {} THEN {<<>>}
  ELSE LET f == CHOOSE g \in fields : TRUE
       IN {(f :> v) @@ w : v \in WidgetChoices(frame, f),
                            w \in WidgetsFrom(fields \ {f}, frame)}

\* ------------------------------------------------------------------------
\* The search (search-button handlers)
\* ------------------------------------------------------------------------
\* df["dist"] = haversine_np(df["lon"], df["lat"], lon, lat), on the copy
AnnotateDistance(frame, lat, lon) ==
  [i \in 1..Len(frame) |->
     frame[i] @@ [dist |-> haversine_np(frame[i].lon, frame[i].lat, lon, lat)]]

\* variant: no copy, the distance column lands on the repository
RepoAfterSearchInPlace(repo, annotated) == annotated
\* the repository after df = df_raw.copy() and the assignment to the copy
RepoAfterSearch(repo, annotated) == repo

\* Series.isin(values)
isin(v, values) == v \in values

\* variant: the comparison turned around
WithinRadiusInverted(r, radius_km) == r.dist # NaN /\ r.dist >= radius_km * 100
\* variant: the boundary excluded
WithinRadiusStrict(r, radius_km) == r.dist # NaN /\ r.dist < radius_km * 100
\* df["dist"] <= radius_km; a comparison with NaN is False
WithinRadius(r, radius_km) == r.dist # NaN /\ r.dist <= radius_km * 100

\* the boolean mask of app.py
AppMask(r, selected, radius_km) ==
  /\ isin(r.operator, selected["operator"])
  /\ isin(r.place, selected["place"])
  /\ isin(r.access, selected["access"])
  /\ isin(r.connector, selected["connector"])
  /\ isin(r.speed, selected["speed"])
  /\ WithinRadius(r, radius_km)

\* the boolean mask of ev_charger_locator.py
LocatorMask(r, radius_km) == WithinRadius(r, radius_km)

Ascending(frame) ==
  \A i \in 1..(Len(frame) - 1) : frame[i].dist <= frame[i + 1].dist

\* the rows of a frame in every order
Reorderings(frame) ==
  {[i \in 1..Len(frame) |-> frame[p[i]]] : p \in Permutations(1..Len(frame))}

\* variant: the rows are not sorted
sort_valuesUnsorted(frame) == Reorderings(frame)
\* variant: an ascending sequence of rows of the frame that may repeat a row
sort_valuesRepeating(frame) ==
  {s \in [1..Len(frame) -> {frame[i] : i \in 1..Len(frame)}] : Ascending(s)}
\* frame.sort_values("dist"): the default sort kind is quicksort, which is
\* not stable, so rows of equal distance come out in any order
sort_values(frame) == {s \in Reorderings(frame) : Ascending(s)}

\* the frames the handler of app.py can store
AppSearch(frame, lat, lon, radius_km, selected) ==
  LET Keep(r) == AppMask(r, selected, radius_km)
  IN sort_values(SelectSeq(AnnotateDistance(frame, lat, lon), Keep))

\* the frames the handler of ev_charger_locator.py can store
LocatorSearch(frame, lat, lng, radius_km) ==
  LET Keep(r) == LocatorMask(r, radius_km)
  IN sort_values(SelectSeq(AnnotateDistance(frame, lat, lng), Keep))

\* ------------------------------------------------------------------------
\* State
\* ------------------------------------------------------------------------
VARIABLES
  prog,           \* "app" or "locator": the script that runs
  phase,          \* "start", "running", "crashed" (load_data raised),
                  \* "stopped" (st.stop() on an empty frame)
  xlsx,           \* the spreadsheet app.py reads
  api,            \* the response the KEPCO API gives
  df_raw,         \* the repository of app.py
  df,             \* the repository of ev_charger_locator.py
  session_state,  \* st.session_state: a function from the keys set so far
  last_clicked,   \* the value st_folium returns: <<>> or <<lat, lng>>
  query           \* the locals of the last search: <<>> or <<record>>

vars == <<prog, phase, xlsx, api, df_raw, df, session_state, last_clicked,
          query>>

\* st.session_state.get(key, default)
Get(key, default) ==
  IF key \in DOMAIN session_state THEN session_state[key] ELSE default

\* lines 164-168 of app.py: a click returned by st_folium moves the centre
MapTail(ss, clicked) ==
  IF clicked = <<>> THEN ss
  ELSE [center_lat |-> clicked[1], center_lon |-> clicked[2],
        last_clicked |-> clicked] @@ ss

Init ==
  /\ prog \in {"app", "locator"}
  /\ phase = "start"
  /\ xlsx \in (IF prog = "app" THEN Sheets ELSE {NoSheet})
  /\ api \in (IF prog = "locator" THEN Responses ELSE {NoResponse})
  /\ df_raw = <<>>
  /\ df = <<>>
  /\ session_state = <<>>
  /\ last_clicked = <<>>
  /\ query = <<>>

\* ------------------------------------------------------------------------
\* app.py
\* ------------------------------------------------------------------------
\* first run of the script: df_raw = load_data(XLSX_PATH)
App_Load ==
  /\ prog = "app" /\ phase = "start"
  /\ IF LoadFails(xlsx)
     THEN phase' = "crashed" /\ df_raw' = <<>>
     ELSE phase' = "running" /\ df_raw' = load_data(xlsx)
  /\ UNCHANGED <<prog, xlsx, api, df, session_state, last_clicked, query>>

\* the address button: address_to_coords finds the address (st.rerun(), and
\* the rerun reaches the map) or does not
App_AddressSearch ==
  /\ prog = "app" /\ phase = "running"
  /\ \/ \E loc \in Points :
          session_state' =
            MapTail([center_lat |-> loc[1], center_lon |-> loc[2]]
                      @@ session_state, last_clicked)
     \/ session_state' = MapTail(session_state, last_clicked)
  /\ UNCHANGED <<prog, phase, xlsx, api, df_raw, df, last_clicked, query>>

\* the two number inputs of the direct-coordinate mode
App_DirectInput ==
  /\ prog = "app" /\ phase = "running"
  /\ \E loc \in Points :
       session_state' =
         MapTail([center_lat |-> loc[1], center_lon |-> loc[2]]
                   @@ session_state, last_clicked)
  /\ UNCHANGED <<prog, phase, xlsx, api, df_raw, df, last_clicked, query>>

\* the search button
App_Search ==
  /\ prog = "app" /\ phase = "running"
  /\ \E radius_km \in Radii, widget \in WidgetsFrom(CatFields, df_raw) :
       LET lat == Get("center_lat", DEFAULT_LAT)
           lon == Get("center_lon", DEFAULT_LNG)
           selected == [f \in CatFields |-> Expand(widget[f], df_raw, f)]
       IN /\ \E results \in AppSearch(df_raw, lat, lon, radius_km, selected) :
               session_state' =
                 MapTail([searched |-> TRUE, results |-> results,
                          center_lat |-> lat, center_lon |-> lon,
                          radius |-> radius_km] @@ session_state,
                         last_clicked)
          /\ df_raw' = RepoAfterSearch(df_raw,
                                       AnnotateDistance(df_raw, lat, lon))
          /\ query' = <<[lat |-> lat, lon |-> lon, radius_km |-> radius_km,
                         widget |-> widget, selected |-> selected]>>
  /\ UNCHANGED <<prog, phase, xlsx, api, df, last_clicked>>

\* a click on the map: st_folium returns the clicked point
App_MapClick ==
  /\ prog = "app" /\ phase = "running"
  /\ \E loc \in Points :
       /\ last_clicked' = loc
       /\ session_state' = MapTail(session_state, loc)
  /\ UNCHANGED <<prog, phase, xlsx, api, df_raw, df, query>>

\* ------------------------------------------------------------------------
\* ev_charger_locator.py
\* ------------------------------------------------------------------------
\* lines 168-173: the session state of a first run
LocatorSession ==
  [searched |-> FALSE, nearby |-> <<>>, user_lat |-> DEFAULT_LAT,
   user_lng |-> DEFAULT_LNG, radius |-> SLIDER_DEFAULT]

\* a run with an empty cache and an empty session state: fetch, stop on an
\* empty frame, initialise the session state otherwise
LocatorStart(response) ==
  /\ api' = response
  /\ df' = fetch_ev_data_from_api(response)
  /\ IF df' = <<>>
     THEN phase' = "stopped" /\ session_state' = <<>>
     ELSE phase' = "running" /\ session_state' = LocatorSession
  /\ query' = <<>>
  /\ UNCHANGED <<prog, xlsx, df_raw, last_clicked>>

Loc_Load ==
  /\ prog = "locator" /\ phase = "start"
  /\ LocatorStart(api)

\* the search button in address mode when get_coordinates returns None
Loc_SearchNotFound ==
  /\ prog = "locator" /\ phase = "running"
  /\ session_state' = [searched |-> FALSE] @@ session_state
  /\ UNCHANGED <<prog, phase, xlsx, api, df_raw, df, last_clicked, query>>

\* the search button with the coordinates of the address or of the inputs
Loc_Search ==
  /\ prog = "locator" /\ phase = "running"
  /\ \E loc \in Points, radius \in Radii :
       LET user_lat == loc[1]
           user_lng == loc[2]
       IN /\ \E nearby \in LocatorSearch(df, user_lat, user_lng, radius) :
               session_state' =
                 [searched |-> TRUE, nearby |-> nearby,
                  user_lat |-> user_lat, user_lng |-> user_lng,
                  radius |-> radius] @@ session_state
          /\ df' = RepoAfterSearch(df, AnnotateDistance(df, user_lat, user_lng))
          /\ query' = <<[lat |-> user_lat, lon |-> user_lng,
                         radius_km |-> radius, widget |-> <<>>,
                         selected |-> <<>>]>>
  /\ UNCHANGED <<prog, phase, xlsx, api, df_raw, last_clicked>>

\* the clear button: cache and session state cleared, st.rerun(); the rerun
\* fetches whatever the API answers now
Loc_ClearCache ==
  /\ prog = "locator" /\ phase = "running"
  /\ \E response \in Responses : LocatorStart(response)

Next ==
  \/ App_Load
  \/ App_AddressSearch
  \/ App_DirectInput
  \/ App_Search
  \/ App_MapClick
  \/ Loc_Load
  \/ Loc_SearchNotFound
  \/ Loc_Search
  \/ Loc_ClearCache

Spec == Init /\ [][Next]_vars

\* ------------------------------------------------------------------------
\* Properties
\* ------------------------------------------------------------------------
\* the repository of the running script
Repo == IF prog = "app" THEN df_raw ELSE df
\* the result the last search stored
Results ==
  IF prog = "app" THEN session_state["results"] ELSE session_state["nearby"]
Searched == query # <<>>
Q == query[1]
RepoRows == {Repo[i] : i \in 1..Len(Repo)}
InResults(r) == \E j \in 1..Len(Results) : Results[j].idx = r.idx
Distance(r) == haversine_np(r.lon, r.lat, Q.lon, Q.lat)
InRadius(r) == Distance(r) <= Q.radius_km * 100
PassesField(r, f) == r[f] \in Q.selected[f]
PassesAll(r) == \A f \in DOMAIN Q.selected : PassesField(r, f)

\* C1: the result of a search holds a repository record if and only if the
\* record's value is in the accepted set of every categorical filter and its
\* distance to the reference point is at most the radius (equality
\* included); every result row is such a record with its distance attached.
C1_ResultIffFiltersAndRadius ==
  Searched =>
    /\ \A r \in RepoRows : InResults(r) <=> (PassesAll(r) /\ InRadius(r))
    /\ \A j \in 1..Len(Results) :
          \E r \in RepoRows : Results[j] = r @@ [dist |-> Distance(r)]

\* a search of app.py whose result holds a record exactly on the boundary
\* while a record inside the radius is rejected by a categorical filter
C1_Witness ==
  /\ Searched /\ prog = "app"
  /\ \E j \in 1..Len(Results) : Results[j].dist = Q.radius_km * 100
  /\ \E r \in RepoRows : InRadius(r) /\ ~PassesAll(r) /\ ~InResults(r)

\* C2: a categorical field for which the user selected no value accepts
\* every record: a record within the radius that is accepted by every field
\* with a non-empty selection is in the result.
C2_EmptyConstraintAcceptsAll ==
  Searched =>
    \A r \in RepoRows :
       (/\ InRadius(r)
        /\ \A f \in DOMAIN Q.widget : Q.widget[f] # {} => PassesField(r, f))
         => InResults(r)

\* C3: when a field's accepted set was chosen with ALL, a record that the
\* other fields and the radius accept is in the result if its value for the
\* field is not missing, and a record whose value is missing is in the result
\* if and only if the missing value is in the accepted set.
C3_SelectAll ==
  (Searched /\ prog = "app") =>
    \A f \in CatFields :
       ALL \in Q.widget[f] =>
         \A r \in RepoRows :
            (InRadius(r) /\ \A g \in CatFields \ {f} : PassesField(r, g))
              => (InResults(r) <=> (r[f] # NA \/ NA \in Q.selected[f]))

\* a search with ALL chosen for the charge speed, over a repository with a
\* record of known speed (in the result) and one of missing speed (not in it)
C3_Witness ==
  /\ Searched /\ prog = "app"
  /\ ALL \in Q.widget["speed"]
  /\ \E r \in RepoRows : r.speed # NA /\ InResults(r)
  /\ \E r \in RepoRows :
        /\ r.speed = NA /\ ~InResults(r) /\ InRadius(r)
        /\ \A g \in CatFields \ {"speed"} : PassesField(r, g)

\* C4: the rows of a result are in ascending order of distance.
C4_AscendingDistance ==
  Searched =>
    \A j \in 1..(Len(Results) - 1) : Results[j].dist <= Results[j + 1].dist

\* a result of two rows of different distance that the sort has put in the
\* reverse of their repository order
C4_Witness ==
  /\ Searched /\ Len(Results) >= 2
  /\ Results[1].dist < Results[2].dist
  /\ Results[1].idx > Results[2].idx

\* C5: two rows of a result with equal distance are in repository order.
C5_StableSort ==
  Searched =>
    \A i, j \in 1..Len(Results) :
       (i < j /\ Results[i].dist = Results[j].dist)
         => Results[i].idx < Results[j].idx

\* the source record of a repository row
SheetRowOf(r) == xlsx.rows[r.idx + 1]
ItemOf(r) == api.items[ParsedPositions(api.items, 1)[r.idx + 1]]

\* the source record has a latitude and a longitude
SheetRowHasCoordinates(src) ==
  IF xlsx.hasLatLon
  THEN /\ src.latlon # NoText
       /\ Len(Split(src.latlon, ",")) = 2
       /\ \A k \in 1..2 : IsFloatText(Split(src.latlon, ",")[k])
  ELSE src.lat # NaN /\ src.lon # NaN
ItemHasCoordinates(src) ==
  /\ IsFloatText(src.lat) /\ FloatValue(src.lat) # 0
  /\ IsFloatText(src.longi) /\ FloatValue(src.longi) # 0

\* C7: every record of the repository comes from a source record that has
\* both a latitude and a longitude, neither of them missing or zero.
C7_CoordinatesPresent ==
  /\ (prog = "app" /\ phase = "running") =>
        \A r \in RepoRows : SheetRowHasCoordinates(SheetRowOf(r))
  /\ (prog = "locator" /\ phase \in {"running", "stopped"}) =>
        \A r \in RepoRows : ItemHasCoordinates(ItemOf(r))

\* C8: once the data is loaded, every well-formed source record is in the
\* repository, whatever other records the source holds.
C8_BadRecordDoesNotAbort ==
  /\ (prog = "app" /\ phase # "start") =>
        \A i \in 1..Len(xlsx.rows) :
           SheetRowHasCoordinates(xlsx.rows[i])
             => \E r \in RepoRows : r.idx = i - 1
  /\ (prog = "locator" /\ phase # "start" /\ api.kind = "ok") =>
        \A i \in 1..Len(api.items) :
           ItemHasCoordinates(api.items[i])
             => \E r \in RepoRows :
                   ParsedPositions(api.items, 1)[r.idx + 1] = i

C10_RepositoryUnchanged ==
  /\ (prog = "app" /\ phase = "running") => df_raw = load_data(xlsx)
  /\ (prog = "locator" /\ phase = "running") =>
        df = fetch_ev_data_from_api(api)

\* a search has stored a non-empty result, whose rows carry the distance
C10_Witness ==
  /\ Searched /\ Len(Results) > 0
  /\ \A j \in 1..Len(Results) : "dist" \in DOMAIN Results[j]
  /\ \A r \in RepoRows : "dist" \notin DOMAIN r

\* the results the handler can store for the reference point and the
\* selection of the last search, with another radius
SearchAgain(radius_km) ==
  IF prog = "app"
  THEN AppSearch(df_raw, Q.lat, Q.lon, radius_km, Q.selected)
  ELSE LocatorSearch(df, Q.lat, Q.lon, radius_km)

\* C11: for the repository, the reference point and the selection of the
\* stored result, a search with a radius at least as large returns every
\* record of the stored result.
C11_MonotonicInclusion ==
  Searched =>
    \A r2 \in Radii :
       Q.radius_km <= r2 =>
         \A bigger \in SearchAgain(r2) :
            \A j \in 1..Len(Results) :
               \E k \in 1..Len(bigger) : bigger[k].idx = Results[j].idx

\* a non-empty result for which a larger radius returns more records
C11_Witness ==
  /\ Searched /\ Len(Results) > 0
  /\ \E r2 \in Radii :
        /\ Q.radius_km < r2
        /\ \E bigger \in SearchAgain(r2) : Len(bigger) > Len(Results)

\* C12: in app.py, whenever the session state holds results, the distance
\* stored on every row is the distance of that row from the centre
\* (center_lat, center_lon) the session state holds.
C12_ResultsMatchCentre ==
  (prog = "app" /\ "results" \in DOMAIN session_state) =>
    \A j \in 1..Len(session_state["results"]) :
       LET row == session_state["results"][j]
       IN row.dist = haversine_np(row.lon, row.lat,
                                  Get("center_lon", DEFAULT_LNG),
                                  Get("center_lat", DEFAULT_LAT))

====
